---- MODULE Spec2Model ----
(***************************************************************************)
(* Model of db_load.py: the batch loader that provisions five tables and   *)
(* fills them from CSV files through one sqlite3 or psycopg2 connection.   *)
(*                                                                         *)
(* A CSV cell, as pandas hands it to the loader, is one of                 *)
(*   [t |-> "nan"]                 an empty cell (NaN)                     *)
(*   [t |-> "none"]                Python None                             *)
(*   [t |-> "int",   v |-> n]      an integer                              *)
(*   [t |-> "float", m |-> m, k |-> k]   the float m / 10^k                *)
(*   [t |-> "inf",   neg |-> b]    a float infinity                        *)
(*   [t |-> "str",   s |-> chars]  text, a sequence of one-character       *)
(*                                 strings                                 *)
(* and a Python call either returns a value or raises:                     *)
(*   [k |-> "int", v |-> n]  [k |-> "none"]  [k |-> "raise", e |-> name]   *)
(***************************************************************************)
EXTENDS Integers, Sequences, FiniteSets, TLC

NaN == [t |-> "nan"]
PyNone == [t |-> "none"]
IntV(n) == [t |-> "int", v |-> n]
FloatV(m, k) == [t |-> "float", m |-> m, k |-> k]
Inf == [t |-> "inf", neg |-> FALSE]
StrV(s) == [t |-> "str", s |-> s]

RetInt(n) == [k |-> "int", v |-> n]
RetNone == [k |-> "none"]
Raise(e) == [k |-> "raise", e |-> e]

----------------------------------------------------------------------------
(* Text helpers: str.strip() and str.split(';').                           *)

Whitespace == {" "}

RECURSIVE LStrip(_)
LStrip(s) == IF s # <<>> /\ Head(s) \in Whitespace THEN LStrip(Tail(s)) ELSE s

RECURSIVE RStrip(_)
RStrip(s) ==
    IF s # <<>> /\ s[Len(s)] \in Whitespace
    THEN RStrip(SubSeq(s, 1, Len(s) - 1))
    ELSE s

Strip(s) == RStrip(LStrip(s))

\* str.split(sep): the pieces between separators; always at least one piece.
RECURSIVE SplitAcc(_, _, _)
SplitAcc(s, sep, cur) ==
    IF s = <<>> THEN <<cur>>
    ELSE IF Head(s) = sep THEN <<cur>> \o SplitAcc(Tail(s), sep, <<>>)
    ELSE SplitAcc(Tail(s), sep, Append(cur, Head(s)))

Split(s, sep) == SplitAcc(s, sep, <<>>)

----------------------------------------------------------------------------
(* float(value) and int(float): the conversions inside convert_to_int.     *)

Digits == {"0", "1", "2", "3", "4", "5", "6", "7", "8", "9"}

DigitVal(c) ==
    CASE c = "0" -> 0 [] c = "1" -> 1 [] c = "2" -> 2 [] c = "3" -> 3
      [] c = "4" -> 4 [] c = "5" -> 5 [] c = "6" -> 6 [] c = "7" -> 7
      [] c = "8" -> 8 [] c = "9" -> 9

RECURSIVE Pow10(_)
Pow10(k) == IF k = 0 THEN 1 ELSE 10 * Pow10(k - 1)

\* The digits of s read as a decimal number, the '.' skipped.
RECURSIVE Mantissa(_, _)
Mantissa(s, acc) ==
    IF s = <<>> THEN acc
    ELSE IF Head(s) = "." THEN Mantissa(Tail(s), acc)
    ELSE Mantissa(Tail(s), 10 * acc + DigitVal(Head(s)))

\* Number of digits after the '.', 0 when there is none.
RECURSIVE FracDigits(_)
FracDigits(s) ==
    IF s = <<>> THEN 0
    ELSE IF Head(s) = "." THEN Len(s) - 1
    ELSE FracDigits(Tail(s))

CountOf(s, c) == Cardinality({i \in 1..Len(s) : s[i] = c})

\* A decimal literal: digits with at most one '.', and at least one digit.
IsDecimal(s) ==
    /\ \A i \in 1..Len(s) : s[i] \in Digits \cup {"."}
    /\ CountOf(s, ".") <= 1
    /\ \E i \in 1..Len(s) : s[i] \in Digits

\* float(text): surrounding whitespace and one sign are accepted, then a
\* decimal literal or one of the words inf, nan.
ParseFloat(s) ==
    LET t == Strip(s)
        signed == t # <<>> /\ Head(t) \in {"-", "+"}
        neg == t # <<>> /\ Head(t) = "-"
        body == IF signed THEN Tail(t) ELSE t
    IN  IF body = <<"i", "n", "f">> THEN [f |-> "inf", neg |-> neg]
        ELSE IF body = <<"n", "a", "n">> THEN [f |-> "nan"]
        ELSE IF IsDecimal(body)
             THEN [f |-> "num", neg |-> neg, m |-> Mantissa(body, 0),
                   k |-> FracDigits(body)]
        ELSE [f |-> "error", e |-> "ValueError"]

\* float(value) for any cell.
ToFloat(value) ==
    CASE value.t = "int" ->
            [f |-> "num", neg |-> value.v < 0,
             m |-> IF value.v < 0 THEN -value.v ELSE value.v, k |-> 0]
      [] value.t = "float" ->
            [f |-> "num", neg |-> value.m < 0,
             m |-> IF value.m < 0 THEN -value.m ELSE value.m, k |-> value.k]
      [] value.t = "inf" -> [f |-> "inf", neg |-> value.neg]
      [] value.t = "nan" -> [f |-> "nan"]
      [] value.t = "none" -> [f |-> "error", e |-> "TypeError"]
      [] value.t = "str" -> ParseFloat(value.s)

\* int(x) of a float: truncation toward zero; int(nan) is a ValueError and
\* int(inf) an OverflowError.
IntOfFloat(x) ==
    CASE x.f = "num" ->
            LET q == x.m \div Pow10(x.k)
            IN  RetInt(IF x.neg THEN -q ELSE q)
      [] x.f = "nan" -> Raise("ValueError")
      [] x.f = "inf" -> Raise("OverflowError")
      [] x.f = "error" -> Raise(x.e)

\* pd.isna(value) for a scalar cell.
IsNa(value) == value.t \in {"nan", "none"}

convert_to_int(value) ==
    IF IsNa(value) THEN RetNone
    ELSE LET r == IntOfFloat(ToFloat(value))
         IN  IF r.k = "raise" /\ r.e \in {"ValueError", "TypeError"}
             THEN RetNone
             ELSE r

\* int(value), the strict conversion load_matches uses.
StrictInt(value) ==
    CASE value.t = "int" -> RetInt(value.v)
      [] value.t = "float" -> IntOfFloat(ToFloat(value))
      [] value.t = "inf" -> Raise("OverflowError")
      [] value.t = "nan" -> Raise("ValueError")
      [] value.t = "none" -> Raise("TypeError")
      [] value.t = "str" ->
            LET t == Strip(value.s)
                signed == t # <<>> /\ Head(t) \in {"-", "+"}
                body == IF signed THEN Tail(t) ELSE t
            IN  IF body # <<>> /\ \A i \in 1..Len(body) : body[i] \in Digits
                THEN RetInt(IF Head(t) = "-" THEN -Mantissa(body, 0)
                            ELSE Mantissa(body, 0))
                ELSE Raise("ValueError")

DigitChar(d) == CHOOSE c \in Digits : DigitVal(c) = d

\* str(n) for an integer n >= 0.
RECURSIVE IntToStr(_)
IntToStr(n) ==
    IF n < 10 THEN <<DigitChar(n)>>
    ELSE Append(IntToStr(n \div 10), DigitChar(n % 10))

\* str(value) for the cells the loaders cast to text.
StrOf(value) ==
    CASE value.t = "str" -> value.s
      [] value.t = "nan" -> <<"n", "a", "n">>
      [] value.t = "int" -> IntToStr(value.v)
      [] value.t = "none" -> <<"N", "o", "n", "e">>
      [] value.t = "inf" -> <<"i", "n", "f">>

----------------------------------------------------------------------------
(* parse_date: '%d-%m-%Y' text to '%Y-%m-%d' text.                         *)

AllDigits(s) == s # <<>> /\ \A i \in 1..Len(s) : s[i] \in Digits

IsLeap(y) == (y % 4 = 0 /\ y % 100 # 0) \/ y % 400 = 0

DaysInMonth(y, m) ==
    IF m = 2 THEN (IF IsLeap(y) THEN 29 ELSE 28)
    ELSE IF m \in {4, 6, 9, 11} THEN 30 ELSE 31

\* n written with at least w digits, zero padded.
RECURSIVE Pad(_, _)
Pad(s, w) == IF Len(s) >= w THEN s ELSE Pad(<<"0">> \o s, w)

\* datetime.strptime(text, '%d-%m-%Y').strftime('%Y-%m-%d')
StrpStrf(s) ==
    LET parts == Split(s, "-")
    IN  IF /\ Len(parts) = 3
           /\ \A i \in 1..3 : AllDigits(parts[i])
           /\ Len(parts[1]) <= 2 /\ Len(parts[2]) <= 2 /\ Len(parts[3]) = 4
        THEN LET d == Mantissa(parts[1], 0)
                 m == Mantissa(parts[2], 0)
                 y == Mantissa(parts[3], 0)
             IN  IF m \in 1..12 /\ y >= 1 /\ d >= 1 /\ d <= DaysInMonth(y, m)
                 THEN [k |-> "text",
                       v |-> Pad(IntToStr(y), 4) \o <<"-">> \o Pad(IntToStr(m), 2)
                             \o <<"-">> \o Pad(IntToStr(d), 2)]
                 ELSE Raise("ValueError")
        ELSE Raise("ValueError")

parse_date(date_str) ==
    IF IsNa(date_str) THEN RetNone
    ELSE IF date_str.t = "str" THEN StrpStrf(date_str.s)
    ELSE Raise("TypeError")

----------------------------------------------------------------------------
(* The database behind the connection.  A database value is a record       *)
(*   exists   the tables that exist                                        *)
(*   views    names held by an object that is not a table                  *)
(*   indexes  the indexes that exist                                       *)
(*   rows     table name -> set of rows                                    *)
(*   seq      table name -> last generated id                              *)
(* A stored value is RetInt(n), RetNone (NULL) or Text(chars).  The        *)
(* columns kept are the id, the identity and NOT NULL columns the loaders  *)
(* can leave empty, and one statistical column per table (kicks,           *)
(* team_1_q1_goals) standing for the columns converted the same way.       *)
(* A connection value is [db_type, disk, work, txn, commits]: disk is what *)
(* is committed, work what the connection sees, txn its transaction state  *)
(* and commits the number of conn.commit() calls of the current operation. *)

Text(s) == [k |-> "text", v |-> s]

TableOrder ==
    <<"players", "player_performances", "team_lineups", "matches", "team_stats">>

TableNames == {TableOrder[i] : i \in 1..Len(TableOrder)}

NotNull(table) ==
    CASE table = "players" -> {"first_name", "last_name", "born_date", "debut_date"}
      [] table = "player_performances" -> {"team", "year"}
      [] table = "team_lineups" ->
            {"year", "date", "round_num", "team_name", "player_name"}
      [] table = "matches" ->
            {"year", "date", "team_1_name", "team_2_name", "team_1_q1_goals"}
      [] table = "team_stats" -> {"year", "team"}

\* A mutant of UniqueKey: the UNIQUE clauses left out of the schema.
UniqueKeyNone(table) == {}

UniqueKey(table) ==
    CASE table = "players" -> {"first_name", "last_name", "born_date"}
      [] table = "player_performances" -> {}
      [] table = "team_lineups" -> {"date", "team_name", "player_name"}
      [] table = "matches" -> {"date", "team_1_name", "team_2_name"}
      [] table = "team_stats" -> {"year", "team"}

\* The tables whose id the loaders read or that hold duplicate rows keep
\* their id column.
HasId(table) == table \in {"players", "player_performances"}

IndexesOf(table) ==
    CASE table = "team_lineups" ->
            {"idx_team_lineups_team_date", "idx_team_lineups_player"}
      [] table = "matches" ->
            {"idx_matches_teams", "idx_matches_date", "idx_matches_year_round"}
      [] table = "team_stats" -> {"idx_team_stats_team", "idx_team_stats_year"}
      [] OTHER -> {}

NoRows == [t \in TableNames |-> {}]
NoSeq == [t \in TableNames |-> 0]

EmptyDb == [exists |-> {}, views |-> {}, indexes |-> {}, rows |-> NoRows, seq |-> NoSeq]

EmptySchema ==
    [exists |-> TableNames, views |-> {},
     indexes |-> UNION {IndexesOf(t) : t \in TableNames},
     rows |-> NoRows, seq |-> NoSeq]

\* DROP TABLE IF EXISTS t [CASCADE]
DropTableIfExists(db, t) ==
    IF t \in db.views THEN [err |-> "OperationalError", db |-> db]
    ELSE [err |-> "none",
          db |-> [db EXCEPT !.exists = @ \ {t}, !.indexes = @ \ IndexesOf(t),
                            !.rows[t] = {}, !.seq[t] = 0]]

\* CREATE TABLE IF NOT EXISTS t (...)
CreateTableIfNotExists(db, t) ==
    IF t \in db.exists THEN db ELSE [db EXCEPT !.exists = @ \cup {t}]

\* CREATE INDEX IF NOT EXISTS ... ON t
CreateIndexes(db, t) == [db EXCEPT !.indexes = @ \cup IndexesOf(t)]

\* The one value of a singleton set.  Below, The({e : x \in {v}}) is e with
\* x standing for the value of v, worked out once.
The(S) == CHOOSE x \in S : TRUE

\* conn.commit(): a commit of a transaction the server has aborted is
\* answered by a rollback.
Commit(conn) ==
    The({IF c.txn = "aborted"
         THEN [c EXCEPT !.work = [c.disk EXCEPT !.seq = c.work.seq], !.txn = "idle",
                        !.commits = @ + 1]
         ELSE [c EXCEPT !.disk = c.work, !.txn = "idle", !.commits = @ + 1]
         : c \in {conn}})

\* What a failed statement leaves: on postgres the transaction is aborted
\* and a generated id stays consumed; on sqlite the statement alone is
\* undone.
Failed(c, table, e, id) ==
    [err |-> e, lastrowid |-> 0, returning |-> 0,
     c |-> IF c.db_type = "postgres"
           THEN [c EXCEPT !.txn = "aborted",
                          !.work.seq[table] =
                              IF HasId(table) /\ e = "IntegrityError" THEN id ELSE @]
           ELSE c]

\* A mutant of OnConflict: ON CONFLICT ... DO UPDATE, the new row replaces
\* the row that holds its key.
OnConflictUpdate(c, table, row) ==
    [c EXCEPT !.txn = "active",
              !.work.rows[table] =
                  {r \in @ : \E col \in UniqueKey(table) : r[col] # row[col]} \cup {row}]

\* ON CONFLICT (date, team_name, player_name) DO NOTHING: the statement
\* succeeds and the table is left as it is.
OnConflict(c, table, row) == [c EXCEPT !.txn = "active"]

\* cur.execute(INSERT INTO table ... [ON CONFLICT ... DO NOTHING]) with the
\* row's values; the result names the error raised, if any, and the
\* generated id.
Execute(conn, table, values, ignore) ==
    The({LET db == c.work
             id == db.seq[table] + 1
             row == IF HasId(table) THEN [values EXCEPT !.id = RetInt(id)] ELSE values
             key == UniqueKey(table)
             clash == key # {} /\ \E r \in db.rows[table] :
                                     \A col \in key : r[col] = row[col]
         IN  IF c.db_type = "postgres" /\ c.txn = "aborted"
             THEN [err |-> "InFailedSqlTransaction", lastrowid |-> 0, returning |-> 0,
                   c |-> c]
             ELSE IF table \notin db.exists THEN Failed(c, table, "OperationalError", id)
             ELSE IF \E col \in NotNull(table) : row[col] = RetNone
                  THEN Failed(c, table, "IntegrityError", id)
             ELSE IF clash
                  THEN IF ignore
                       THEN [err |-> "none", lastrowid |-> 0, returning |-> 0,
                             c |-> OnConflict(c, table, row)]
                       ELSE Failed(c, table, "IntegrityError", id)
             ELSE [err |-> "none", lastrowid |-> id, returning |-> id,
                   c |-> [c EXCEPT !.txn = "active",
                                   !.work.rows[table] = @ \cup {row},
                                   !.work.seq[table] = IF HasId(table) THEN id ELSE @]]
         : c \in {conn}})

----------------------------------------------------------------------------
(* create_schema                                                           *)

\* One DDL statement's effect on the connection.  sqlite3 opens no
\* transaction for DDL, so the statement is durable at once; psycopg2 runs
\* it inside the transaction that conn.commit() ends.
Ddl(c, db) ==
    IF c.db_type = "sqlite" /\ c.txn = "idle"
    THEN [c EXCEPT !.work = db, !.disk = db]
    ELSE [c EXCEPT !.work = db, !.txn = "active"]

RECURSIVE DropAll(_, _)
DropAll(conn, tables) ==
    The({IF tables = <<>> THEN [err |-> "none", c |-> c]
         ELSE The({IF r.err # "none"
                   THEN [err |-> r.err,
                         c |-> IF c.db_type = "postgres"
                               THEN [c EXCEPT !.txn = "aborted"] ELSE c]
                   ELSE DropAll(Ddl(c, r.db), Tail(tables))
                   : r \in {DropTableIfExists(c.work, Head(tables))}})
         : c \in {conn}})

RECURSIVE CreateAll(_, _)
CreateAll(conn, tables) ==
    The({IF tables = <<>> THEN c
         ELSE CreateAll(Ddl(c, CreateTableIfNotExists(c.work, Head(tables))),
                        Tail(tables))
         : c \in {conn}})

RECURSIVE IndexAll(_, _)
IndexAll(conn, tables) ==
    The({IF tables = <<>> THEN c
         ELSE IndexAll(Ddl(c, CreateIndexes(c.work, Head(tables))), Tail(tables))
         : c \in {conn}})

\* A mutant of DropOrder: the drop loop misses team_stats.
DropOrderShort == <<"players", "player_performances", "team_lineups", "matches">>

\* The tables of the drop loop.
DropOrder == TableOrder

create_schema(conn) ==
    The({IF d.err # "none" THEN [err |-> d.err, c |-> d.c, log |-> <<>>]
         ELSE [err |-> "none",
               c |-> Commit(IndexAll(CreateAll(d.c, TableOrder), TableOrder)),
               log |-> <<>>]
         : d \in {DropAll(conn, DropOrder)}})

----------------------------------------------------------------------------
(* load_player_data, one personal-details file                             *)

NoFile == [missing |-> TRUE]

\* The error of the first call that raised, "none" when none did.
RECURSIVE FirstRaise(_)
FirstRaise(results) ==
    IF results = <<>> THEN "none"
    ELSE IF Head(results).k = "raise" THEN Head(results).e
    ELSE FirstRaise(Tail(results))

\* A mutant of GeneratedId: the id of the first row, whatever was inserted.
GeneratedIdFirst(c, res) == 1

\* The generated id of the row just inserted: cur.lastrowid on sqlite,
\* the RETURNING id row on postgres.
GeneratedId(c, res) == IF c.db_type = "sqlite" THEN res.lastrowid ELSE res.returning

RECURSIVE InsertPerformances(_, _, _)
InsertPerformances(conn, player_id, rows) ==
    IF rows = <<>> THEN [err |-> "none", c |-> conn]
    ELSE LET row == Head(rows)
             year == convert_to_int(row.year)
             kicks == convert_to_int(row.kicks)
             bad == FirstRaise(<<year, kicks>>)
         IN  IF bad # "none" THEN [err |-> bad, c |-> conn]
             ELSE The({IF res.err # "none" THEN [err |-> res.err, c |-> res.c]
                       ELSE InsertPerformances(res.c, player_id, Tail(rows))
                       : res \in {Execute(conn, "player_performances",
                                          [id |-> RetNone,
                                           player_id |-> RetInt(player_id),
                                           team |-> Text(StrOf(row.team)),
                                           year |-> year, kicks |-> kicks], FALSE)}})

\* The try block of the loop over personal_files: the players row, its
\* generated id, one player_performances row per performance row, one
\* commit.
InsertPlayer(conn, personal, rows) ==
    LET born == parse_date(personal.born_date)
        debut == parse_date(personal.debut_date)
        height == convert_to_int(personal.height)
        weight == convert_to_int(personal.weight)
        bad == FirstRaise(<<born, debut, height, weight>>)
    IN  IF bad # "none" THEN [err |-> bad, c |-> conn, log |-> <<>>]
        ELSE The({IF res.err # "none"
                  THEN [err |-> res.err, c |-> res.c, log |-> <<>>]
                  ELSE The({IF p.err # "none"
                            THEN [err |-> p.err, c |-> p.c, log |-> <<>>]
                            ELSE [err |-> "none", c |-> Commit(p.c), log |-> <<>>]
                            : p \in {InsertPerformances(res.c, GeneratedId(res.c, res),
                                                        rows)}})
                  : res \in {Execute(conn, "players",
                                     [id |-> RetNone,
                                      first_name |-> Text(StrOf(personal.first_name)),
                                      last_name |-> Text(StrOf(personal.last_name)),
                                      born_date |-> born, debut_date |-> debut,
                                      height |-> height, weight |-> weight], FALSE)}})

\* A mutant of load_player: no os.path.exists check, a missing performance
\* file read as an empty one.
load_player_unchecked(conn, personal, performance) ==
    InsertPlayer(conn, personal,
                 IF performance = NoFile THEN <<>> ELSE performance.rows)

\* The body of the loop over personal_files, for one file and its
\* performance file (NoFile when os.path.exists is False).
load_player(conn, personal, performance) ==
    IF performance = NoFile
    THEN [err |-> "none", c |-> conn,
          log |-> <<[level |-> "info", msg |-> "Warning: No performance data found"]>>]
    ELSE InsertPlayer(conn, personal, performance.rows)

----------------------------------------------------------------------------
(* load_team_lineups, one lineup file.  A file is [columns, rows]: the     *)
(* columns its header names and its rows, each a record of cells.          *)

\* row[col]: a KeyError when the file has no such column.
Cell(f, row, col) ==
    IF col \in f.columns THEN [k |-> "cell", v |-> row[col]] ELSE Raise("KeyError")

RECURSIVE InsertLineupNames(_, _, _)
InsertLineupNames(conn, names, values) ==
    IF names = <<>> THEN [err |-> "none", c |-> conn]
    ELSE The({IF res.err # "none" THEN [err |-> res.err, c |-> res.c]
              ELSE InsertLineupNames(res.c, Tail(names), values)
              : res \in {Execute(conn, "team_lineups",
                                 [values EXCEPT
                                     !.player_name = Text(Strip(Head(names)))],
                                 TRUE)}})

\* The try block of one row: the error it raised ("none" when it did not)
\* and the connection after it.
LineupRow(conn, f, row) ==
    LET players == Cell(f, row, "players")
        round == Cell(f, row, "round_num")
        year == IF "year" \in f.columns THEN convert_to_int(row.year)
                ELSE Raise("KeyError")
        date == Cell(f, row, "date")
        team == Cell(f, row, "team_name")
        bad == FirstRaise(<<players, round, year, date, team>>)
    IN  IF bad # "none" THEN [err |-> bad, c |-> conn]
        ELSE InsertLineupNames(conn, Split(StrOf(players.v), ";"),
                 [year |-> year, date |-> Text(StrOf(date.v)),
                  round_num |-> Text(Strip(StrOf(round.v))),
                  team_name |-> Text(StrOf(team.v)), player_name |-> RetNone])

\* The loop over the rows from row i on: a row that raises is logged with
\* its content and the loop goes on.
RECURSIVE LineupRows(_, _, _, _)
LineupRows(conn, f, i, logged) ==
    IF i > Len(f.rows) THEN [err |-> "none", c |-> conn, log |-> logged]
    ELSE The({LineupRows(r.c, f, i + 1,
                         IF r.err # "none"
                         THEN Append(logged, [level |-> "error", index |-> i,
                                              row |-> f.rows[i], error |-> r.err])
                         ELSE logged)
              : r \in {LineupRow(conn, f, f.rows[i])}})

load_lineup_file(conn, f) ==
    The({[err |-> "none", c |-> Commit(r.c), log |-> r.log]
         : r \in {LineupRows(conn, f, 1, <<>>)}})

----------------------------------------------------------------------------
(* load_matches, one match file (a sequence of rows)                       *)

RECURSIVE MatchRows(_, _)
MatchRows(conn, rows) ==
    IF rows = <<>> THEN [err |-> "none", c |-> conn]
    ELSE LET row == Head(rows)
             year == StrictInt(row.year)
             goals == StrictInt(row.team_1_q1_goals)
             bad == FirstRaise(<<year, goals>>)
         IN  IF bad # "none" THEN [err |-> bad, c |-> conn]
             ELSE The({IF res.err # "none" THEN [err |-> res.err, c |-> res.c]
                       ELSE MatchRows(res.c, Tail(rows))
                       : res \in {Execute(conn, "matches",
                                     [year |-> year, date |-> Text(StrOf(row.date)),
                                      team_1_name |-> Text(StrOf(row.team_1_team_name)),
                                      team_2_name |-> Text(StrOf(row.team_2_team_name)),
                                      team_1_q1_goals |-> goals], FALSE)}})

\* A mutant of load_match_file: the commit sits in the finally block.
load_match_file_finally(conn, rows) ==
    The({[err |-> r.err, c |-> Commit(r.c), log |-> <<>>]
         : r \in {MatchRows(conn, rows)}})

load_match_file(conn, rows) ==
    The({IF r.err # "none" THEN [err |-> r.err, c |-> r.c, log |-> <<>>]
         ELSE [err |-> "none", c |-> Commit(r.c), log |-> <<>>]
         : r \in {MatchRows(conn, rows)}})

----------------------------------------------------------------------------
(* load_team_stats, one team-stats file (a sequence of rows)               *)

RECURSIVE StatsRows(_, _)
StatsRows(conn, rows) ==
    IF rows = <<>> THEN [err |-> "none", c |-> conn]
    ELSE LET row == Head(rows)
             year == convert_to_int(row.year)
             kicks == convert_to_int(row.kicks)
             bad == FirstRaise(<<year, kicks>>)
         IN  IF bad # "none" THEN [err |-> bad, c |-> conn]
             ELSE The({IF res.err # "none" THEN [err |-> res.err, c |-> res.c]
                       ELSE StatsRows(res.c, Tail(rows))
                       : res \in {Execute(conn, "team_stats",
                                          [year |-> year, team |-> Text(StrOf(row.team)),
                                           kicks |-> kicks], FALSE)}})

\* A mutant of load_stats_file: the commit sits in the finally block.
load_stats_file_finally(conn, rows) ==
    The({[err |-> r.err, c |-> Commit(r.c), log |-> <<>>]
         : r \in {StatsRows(conn, rows)}})

load_stats_file(conn, rows) ==
    The({IF r.err # "none" THEN [err |-> r.err, c |-> r.c, log |-> <<>>]
         ELSE [err |-> "none", c |-> Commit(r.c), log |-> <<>>]
         : r \in {StatsRows(conn, rows)}})

----------------------------------------------------------------------------
(* The input files.  Each directory yields files whose rows are drawn from *)
(* the row sets below; a file holds at most MaxRows rows and a run reads   *)
(* at most MaxFiles files in all.                                          *)

MaxRows == 2
MaxFiles == 2

SeqsUpTo(S, n) == UNION {[1..k -> S] : k \in 0..n}

DateText == StrV(<<"0", "1", "-", "0", "2", "-", "1", "9", "9", "0">>)
StampText == StrV(<<"2", "0", "2", "0", "-", "0", "3", "-", "2", "1">>)

PersonalRow(first, born, height) ==
    [first_name |-> StrV(<<first>>), last_name |-> StrV(<<"X">>), born_date |-> born,
     debut_date |-> DateText, height |-> height, weight |-> NaN]

Personals ==
    {PersonalRow("A", DateText, FloatV(1800, 1)),
     PersonalRow("B", DateText, StrV(<<"1", "8", "0">>)),
     PersonalRow("A", NaN, FloatV(1800, 1)),
     PersonalRow("B", DateText, Inf)}

PerformanceRow(year) ==
    [team |-> StrV(<<"H">>), year |-> year, kicks |-> FloatV(30, 1)]

PerformanceRows == {PerformanceRow(IntV(2020)), PerformanceRow(NaN)}

PerformanceFiles == {[rows |-> r] : r \in SeqsUpTo(PerformanceRows, MaxRows)}

LineupColumns == {"year", "date", "round_num", "team_name", "players"}

LineupRow0(year, players) ==
    [year |-> year, date |-> StampText, round_num |-> StrV(<<" ", "E", "F">>),
     team_name |-> StrV(<<"H">>), players |-> StrV(players)]

LineupRowSet ==
    {LineupRow0(IntV(2020), <<"A", ";", " ", "B">>),
     LineupRow0(IntV(2021), <<" ", "A", " ", ";", "A">>),
     LineupRow0(NaN, <<"A", ";", " ", "B">>),
     LineupRow0(Inf, <<"B">>)}

LineupFiles ==
    [columns : {LineupColumns, LineupColumns \ {"team_name"}},
     rows : SeqsUpTo(LineupRowSet, MaxRows)]

MatchRow(team_1, team_2, goals) ==
    [year |-> IntV(2020), date |-> StampText, team_1_team_name |-> StrV(<<team_1>>),
     team_2_team_name |-> StrV(<<team_2>>), team_1_q1_goals |-> goals]

MatchRowSet ==
    {MatchRow("H", "C", IntV(3)), MatchRow("C", "H", IntV(3)),
     MatchRow("H", "C", NaN), MatchRow("C", "H", StrV(<<"x">>))}

MatchFiles == SeqsUpTo(MatchRowSet, MaxRows)

StatsRow(year, team, kicks) == [year |-> year, team |-> StrV(<<team>>), kicks |-> kicks]

StatsRowSet ==
    {StatsRow(IntV(2020), "H", FloatV(1000, 1)), StatsRow(IntV(2020), "C", NaN),
     StatsRow(NaN, "H", FloatV(1000, 1)), StatsRow(IntV(2020), "C", Inf)}

StatsFiles == SeqsUpTo(StatsRowSet, MaxRows)

\* What a fresh connection sees of a database.
Connection(db_type, db) ==
    [db_type |-> db_type, disk |-> db, work |-> db, txn |-> "idle", commits |-> 0]

\* The databases a run can find: none yet, the schema of an earlier run
\* with nothing loaded, the result of an earlier run, and a database in
\* which the name players is held by a view.
LeftoverDb ==
    LET c0 == Connection("sqlite", EmptySchema)
        c1 == load_player(c0, PersonalRow("A", DateText, FloatV(1800, 1)),
                          [rows |-> <<PerformanceRow(IntV(2020))>>]).c
        c2 == load_lineup_file(c1, [columns |-> LineupColumns,
                                    rows |-> <<LineupRow0(IntV(2020),
                                                          <<"A", ";", " ", "B">>)>>]).c
        c3 == load_match_file(c2, <<MatchRow("H", "C", IntV(3))>>).c
        c4 == load_stats_file(c3, <<StatsRow(IntV(2020), "H", FloatV(1000, 1))>>).c
    IN  c4.disk

ForeignDb == [EmptyDb EXCEPT !.views = {"players"}]

InitialDbs == {EmptyDb, EmptySchema, LeftoverDb, ForeignDb}

----------------------------------------------------------------------------
(* main: the run.                                                          *)
(*   pc       where main is: start, schema, players, lineups, matches,     *)
(*            teams, closing (the finally block), done                     *)
(*   c        the connection and the database behind it                    *)
(*   open     whether the connection is open                               *)
(*   raised   the exception propagating out of main, "none" when none      *)
(*   closes   the number of conn.close() calls                             *)
(*   left     the files the directories still hold                         *)
(*   op, file, before, log   the last operation main invoked, its input    *)
(*            file, the committed database before it and what it logged    *)

(*   value, result   the argument and the outcome of a convert_to_int call *)
(*            made on its own (ConvSpec); idle during a run                *)

VARIABLES pc, c, open, raised, closes, left, op, file, before, log, value, result

vars == <<pc, c, open, raised, closes, left, op, file, before, log, value, result>>

Pending == [k |-> "pending"]

\* A mutant of Stages: load_matches called before load_team_lineups.
StagesSwapped == <<"schema", "players", "matches", "lineups", "teams", "closing">>

\* The calls of main's try block in their order, then the finally block.
Stages == <<"schema", "players", "lineups", "matches", "teams", "closing">>

StageAfter(stage) ==
    LET i == CHOOSE j \in 1..Len(Stages) : Stages[j] = stage
    IN  Stages[i + 1]

\* A mutant of AfterCall: no try/finally, an exception leaves main at once.
AfterCallNoFinally(stage, err, more) ==
    IF err # "none" THEN "done"
    ELSE IF more THEN stage ELSE StageAfter(stage)

\* Where main goes after a call made at a stage: to the finally block when
\* the call raised, on to the next file of the stage's loop when there is
\* one, else to the next stage.
AfterCall(stage, err, more) ==
    IF err # "none" THEN "closing"
    ELSE IF more THEN stage ELSE StageAfter(stage)

Init ==
    /\ pc = "start"
    /\ \E t \in {"sqlite", "postgres"}, db \in InitialDbs : c = Connection(t, db)
    /\ open = FALSE
    /\ raised = "none"
    /\ closes = 0
    /\ left = MaxFiles
    /\ op = "none"
    /\ file = NoFile
    /\ before = c.disk
    /\ log = <<>>
    /\ value = NaN
    /\ result = Pending

\* main's call of an operation at a stage, r its result.
Call(stage, name, input, r, more) ==
    /\ c' = r.c
    /\ raised' = r.err
    /\ pc' = AfterCall(stage, r.err, more)
    /\ op' = name
    /\ file' = input
    /\ before' = c.disk
    /\ log' = r.log
    /\ UNCHANGED <<open, closes, value, result>>

Fresh == [c EXCEPT !.commits = 0]

\* get_db_connection
Connect ==
    /\ pc = "start"
    /\ pc' = "schema"
    /\ open' = TRUE
    /\ UNCHANGED <<c, raised, closes, left, op, file, before, log, value, result>>

CreateSchema ==
    /\ pc = "schema"
    /\ Call("schema", "create_schema", NoFile, create_schema(Fresh), FALSE)
    /\ UNCHANGED left

LoadPlayer ==
    /\ pc = "players" /\ left > 0
    /\ \E personal \in Personals, performance \in PerformanceFiles \cup {NoFile} :
          Call("players", "load_player",
               [personal |-> personal, performance |-> performance],
               load_player(Fresh, personal, performance), TRUE)
    /\ left' = left - 1

LoadLineupFile ==
    /\ pc = "lineups" /\ left > 0
    /\ \E f \in LineupFiles :
          Call("lineups", "load_lineup_file", f, load_lineup_file(Fresh, f), TRUE)
    /\ left' = left - 1

LoadMatchFile ==
    /\ pc = "matches" /\ left > 0
    /\ \E f \in MatchFiles :
          Call("matches", "load_match_file", [rows |-> f], load_match_file(Fresh, f), TRUE)
    /\ left' = left - 1

LoadStatsFile ==
    /\ pc = "teams" /\ left > 0
    /\ \E f \in StatsFiles :
          Call("teams", "load_stats_file", [rows |-> f], load_stats_file(Fresh, f), TRUE)
    /\ left' = left - 1

\* A loader's loop has no file left: the loader returns.
LoaderReturns ==
    /\ pc \in {"players", "lineups", "matches", "teams"}
    /\ pc' = AfterCall(pc, "none", FALSE)
    /\ UNCHANGED <<c, open, raised, closes, left, op, file, before, log, value, result>>

\* The finally block: conn.close() drops what was not committed.
Close ==
    /\ pc = "closing"
    /\ pc' = "done"
    /\ open' = FALSE
    /\ closes' = closes + 1
    /\ c' = [c EXCEPT !.work = [c.disk EXCEPT !.seq =
                                    IF c.db_type = "postgres" THEN c.work.seq
                                    ELSE c.disk.seq],
                      !.txn = "idle"]
    /\ UNCHANGED <<raised, left, op, file, before, log, value, result>>

Next ==
    \/ Connect
    \/ CreateSchema
    \/ LoadPlayer
    \/ LoadLineupFile
    \/ LoadMatchFile
    \/ LoadStatsFile
    \/ LoaderReturns
    \/ Close

Spec == Init /\ [][Next]_vars

----------------------------------------------------------------------------
(* convert_to_int called on its own, on every cell value a CSV file can    *)
(* hold: a missing value, an integer, a float, an infinity, and every text *)
(* of at most MaxStrLen characters over TextAlphabet.                      *)

MaxStrLen == 3

TextAlphabet == {"3", "0", ".", "-", " ", "a", "b", "c", "i", "n", "f"}

CellValues ==
    {PyNone, NaN, Inf, [t |-> "inf", neg |-> TRUE], IntV(3), IntV(-3), IntV(0),
     FloatV(30, 1), FloatV(37, 1), FloatV(-37, 1)}
    \cup {StrV(s) : s \in SeqsUpTo(TextAlphabet, MaxStrLen)}

ConvInit ==
    /\ value \in CellValues
    /\ result = Pending
    /\ pc = "start"
    /\ c = Connection("sqlite", EmptyDb)
    /\ open = FALSE
    /\ raised = "none"
    /\ closes = 0
    /\ left = 0
    /\ op = "none"
    /\ file = NoFile
    /\ before = EmptyDb
    /\ log = <<>>

Convert ==
    /\ result = Pending
    /\ result' = convert_to_int(value)
    /\ UNCHANGED <<pc, c, open, raised, closes, left, op, file, before, log, value>>

ConvNext == Convert

ConvSpec == ConvInit /\ [][ConvNext]_vars

----------------------------------------------------------------------------
(* Properties.                                                             *)

Range(q) == {q[i] : i \in 1..Len(q)}

\* The player names of a lineup row: the players field split on ';', each
\* piece trimmed.
NamesOf(row) == {Strip(n) : n \in Range(Split(StrOf(row.players), ";"))}

\* The team_lineups rows of a database that carry a row's date and team and
\* the player name n.
EntriesFor(db, row, n) ==
    {r \in db.rows["team_lineups"] :
        /\ r.date = Text(StrOf(row.date))
        /\ r.team_name = Text(StrOf(row.team_name))
        /\ r.player_name = Text(n)}

\* A lineup row whose processing fails whatever the table holds: processed
\* alone against the empty schema, its try block raises.
LineupRowFails(f, row) ==
    LineupRow(Connection(c.db_type, EmptySchema), f, row).err # "none"

\* C1: after load_team_lineups has processed a file, every row whose
\* processing fails is logged with its content, the entries of every other
\* row of the file are committed, and no exception has left the loader.
C1_RowIsolation ==
    op = "load_lineup_file" =>
        /\ raised = "none"
        /\ \A i \in 1..Len(file.rows) :
              IF LineupRowFails(file, file.rows[i])
              THEN \E j \in 1..Len(log) :
                      log[j].index = i /\ log[j].row = file.rows[i]
              ELSE \A n \in NamesOf(file.rows[i]) :
                      EntriesFor(c.disk, file.rows[i], n) # {}

BadNumeric(row) == StrictInt(row.team_1_q1_goals).k = "raise"

\* C2: when a match file holds a row with a missing or non-numeric
\* team_1_q1_goals, load_matches raises before any commit for that file, and
\* from then to the end of the run the committed database is what it was
\* before the file: no row of the file is persisted and the rows of the
\* files committed earlier are unchanged.
C2_MatchFileAborts ==
    (op = "load_match_file" /\ \E i \in 1..Len(file.rows) : BadNumeric(file.rows[i])) =>
        /\ raised # "none"
        /\ pc \in {"closing", "done"}
        /\ c.commits = 0
        /\ c.disk = before
        /\ pc = "done" => c.work.rows = before.rows

\* C2's case: a run ended by a match file whose second row is bad, after a
\* good first row and an earlier committed match file.
C2_Witness ==
    /\ op = "load_match_file" /\ pc = "done" /\ raised = "ValueError"
    /\ Len(file.rows) = 2
    /\ ~BadNumeric(file.rows[1]) /\ BadNumeric(file.rows[2])
    /\ before.rows["matches"] # {}

C4_FanOutIdempotent ==
    op = "load_lineup_file" =>
        /\ raised = "none"
        /\ \A i \in 1..Len(file.rows) :
              ~LineupRowFails(file, file.rows[i]) =>
                  \A n \in NamesOf(file.rows[i]) :
                      /\ Cardinality(EntriesFor(c.disk, file.rows[i], n)) = 1
                      /\ \A r \in EntriesFor(c.disk, file.rows[i], n) :
                            r.round_num.k = "text"
        /\ LET again == load_lineup_file(Fresh, file)
           IN  again.err = "none" /\ again.c.disk.rows = c.disk.rows

\* The rows the last operation added to a table of the committed database.
Added(t) == c.disk.rows[t] \ before.rows[t]

\* One players row and one player_performances row per row of the
\* performance file were added, each of those referencing the id of that
\* players row.
PlayerLoaded ==
    /\ Cardinality(Added("players")) = 1
    /\ Cardinality(Added("player_performances")) = Len(file.performance.rows)
    /\ \A p \in Added("players"), f \in Added("player_performances") :
          f.player_id # RetNone /\ f.player_id = p.id

\* C5 as stated: every personal-details file with a matching performance
\* file of N rows adds one players row and N player_performances rows that
\* reference it.
C5_EveryPlayerLoaded ==
    (op = "load_player" /\ file.performance # NoFile) => PlayerLoaded

\* C5 amended: a personal-details file with a matching performance file of
\* N rows whose conversions and inserts all succeed adds one players row
\* and N player_performances rows, each referencing that row's generated
\* id; when one of them fails the error leaves the loader and nothing of
\* the player is committed.
C5_PlayerLinked ==
    (op = "load_player" /\ file.performance # NoFile) =>
        IF raised = "none" THEN PlayerLoaded ELSE c.disk = before

\* C5's case: on postgres, a second player with two performance rows has
\* been loaded.
C5_Witness ==
    /\ op = "load_player" /\ raised = "none" /\ c.db_type = "postgres"
    /\ file.performance # NoFile /\ Len(file.performance.rows) = 2
    /\ before.rows["players"] # {}

\* C6: a load_player_data step for a personal-details file with no
\* performance file logs the warning, raises nothing, inserts and commits
\* nothing, and leaves the loader in its loop over the files.
C6_SkipWithoutCompanion ==
    [][(pc = "players" /\ op' = "load_player" /\ left' = left - 1
        /\ file'.performance = NoFile) =>
          /\ raised' = "none"
          /\ pc' = "players"
          /\ c'.disk = c.disk /\ c'.work = c.work /\ c'.commits = 0
          /\ \E j \in 1..Len(log') : log'[j].level = "info"]_vars

\* C6's case: the first personal-details file was skipped and the next one
\* was loaded.
C6_Witness ==
    /\ op = "load_player" /\ raised = "none" /\ file.performance # NoFile
    /\ left = MaxFiles - 2
    /\ before.rows["players"] = {} /\ c.disk.rows["players"] # {}

\* C7: the run ends only by the close of the open connection, which
\* happens once; once an error is raised the next step is that close, and
\* the error is still propagating after it.
C7_ClosedOnce ==
    [][/\ (pc # "done" /\ pc' = "done") =>
              (open /\ ~open' /\ closes = 0 /\ closes' = 1)
       /\ (raised # "none" /\ pc # "done") =>
              (pc = "closing" /\ pc' = "done" /\ raised' = raised)
       /\ closes' <= 1]_vars

\* C7's case: a run ended by an error, the connection closed.
C7_Witness == pc = "done" /\ raised # "none" /\ closes = 1 /\ ~open

\* The number of rows the last operation added to a committed table.
Grew(t) == Cardinality(c.disk.rows[t]) - Cardinality(before.rows[t])

\* The last operation either committed once, after its last insert, or
\* raised and committed nothing.
OneCommitOrNone ==
    IF raised = "none" THEN c.commits = 1 /\ c.work = c.disk
    ELSE c.commits = 0 /\ c.disk = before

\* C8: a unit that returns has issued one commit, after its last insert; a
\* unit that raises has issued none; so at every moment, the end of the run
\* included, the committed database holds all rows of the last match or
\* team-stats file or none of them, and a players row only with all the
\* performance rows of its file.
C8_AtomicUnits ==
    /\ op = "load_match_file" =>
          /\ OneCommitOrNone
          /\ before.rows["matches"] \subseteq c.disk.rows["matches"]
          /\ Grew("matches") = IF raised = "none" THEN Len(file.rows) ELSE 0
    /\ op = "load_stats_file" =>
          /\ OneCommitOrNone
          /\ before.rows["team_stats"] \subseteq c.disk.rows["team_stats"]
          /\ Grew("team_stats") = IF raised = "none" THEN Len(file.rows) ELSE 0
    /\ (op = "load_player" /\ file.performance # NoFile) =>
          /\ OneCommitOrNone
          /\ Grew("players") = IF raised = "none" THEN 1 ELSE 0
          /\ Grew("player_performances") =
                IF raised = "none" THEN Len(file.performance.rows) ELSE 0
    /\ op = "load_lineup_file" => c.commits = 1 /\ c.work.rows = c.disk.rows

\* C8's case: the run ended on a team-stats file whose first row was
\* inserted and whose second row raised.
C8_Witness ==
    /\ op = "load_stats_file" /\ pc = "done" /\ raised # "none"
    /\ Len(file.rows) = 2
    /\ StatsRows(Connection(c.db_type, EmptySchema), <<file.rows[1]>>).err = "none"
    /\ before.rows["team_stats"] = {}

\* No two rows of the set agree on all the columns.
UniqueOn(rows, columns) ==
    \A r1 \in rows, r2 \in rows : (\A col \in columns : r1[col] = r2[col]) => r1 = r2

\* C9: in the committed database and in what the connection sees, no two
\* players rows share (first_name, last_name, born_date), no two
\* team_lineups rows (date, team_name, player_name), no two matches rows
\* (date, team_1_name, team_2_name), no two team_stats rows (year, team).
C9_UniqueIdentities ==
    \A db \in {c.disk, c.work} :
        /\ UniqueOn(db.rows["players"], {"first_name", "last_name", "born_date"})
        /\ UniqueOn(db.rows["team_lineups"], {"date", "team_name", "player_name"})
        /\ UniqueOn(db.rows["matches"], {"date", "team_1_name", "team_2_name"})
        /\ UniqueOn(db.rows["team_stats"], {"year", "team"})

\* C9's case: a second personal-details file for a player already stored
\* was refused.
C9_Witness ==
    /\ op = "load_player" /\ raised = "IntegrityError"
    /\ file.performance # NoFile /\ file.personal.born_date = DateText
    /\ \E r \in c.disk.rows["players"] :
          r.first_name = Text(StrOf(file.personal.first_name))

\* C10: convert_to_int returns an integer or the absence value for every
\* input and never raises; None, NaN, "abc" and "" give absence; 3, 3.0,
\* "3" and "3.0" give 3; text that float() cannot parse gives absence.
C10_Total ==
    result # Pending =>
        /\ result.k \in {"int", "none"}
        /\ value \in {PyNone, NaN, StrV(<<"a", "b", "c">>), StrV(<<>>)} =>
              result = RetNone
        /\ value \in {IntV(3), FloatV(30, 1), StrV(<<"3">>), StrV(<<"3", ".", "0">>)} =>
              result = RetInt(3)
        /\ (value.t = "str" /\ ParseFloat(value.s).f = "error") => result = RetNone


Loaders == {"players", "lineups", "matches", "teams"}

C11_Rank(p) ==
    CASE p = "start" -> 0
      [] p = "schema" -> 1
      [] p = "players" -> 2
      [] p = "lineups" -> 3
      [] p = "matches" -> 4
      [] p = "teams" -> 5
      [] p = "closing" -> 6
      [] p = "done" -> 7

C11_LoaderAt(p) ==
    CASE p = "players" -> "load_player"
      [] p = "lineups" -> "load_lineup_file"
      [] p = "matches" -> "load_match_file"
      [] p = "teams" -> "load_stats_file"

\* No table gains a row, in the session or committed.
C11_NothingInserted ==
    \A t \in TableNames :
        /\ c'.work.rows[t] \subseteq c.work.rows[t]
        /\ c'.disk.rows[t] \subseteq c.disk.rows[t]

\* C11: in every run main moves forward only, one stage at a time or to the
\* finally block on an exception: create_schema is called in exactly one
\* step, the first after connecting, and no row is inserted before it; the
\* loaders are called in the order players, lineups, matches, team stats,
\* every call handling one file and ending with nothing of it left open
\* before the next call; a loader is entered only while no exception has
\* been raised, and once one has been raised nothing more is called,
\* inserted or committed.
C11_RunOrder ==
    [][ /\ C11_Rank(pc') >= C11_Rank(pc)
        /\ pc' # pc => \/ C11_Rank(pc') = C11_Rank(pc) + 1
                       \/ pc' = "closing" /\ raised' # "none"
        /\ pc = "start" => C11_NothingInserted /\ op' = "none"
        /\ pc = "schema" => /\ op' = "create_schema"
                            /\ pc' \in {"players", "closing"}
                            /\ C11_NothingInserted
        /\ left' # left => /\ pc \in Loaders
                           /\ left' = left - 1
                           /\ op' = C11_LoaderAt(pc)
                           /\ pc' \in {pc, "closing"}
        /\ (left' = left /\ pc # "schema") =>
              /\ op' = op /\ file' = file
              /\ c'.disk = c.disk /\ c'.commits = c.commits
              /\ C11_NothingInserted
        /\ pc' \in Loaders => /\ raised' = "none"
                              /\ op' # "none"
                              /\ c'.txn = "idle"
                              /\ c'.work.rows = c'.disk.rows
        /\ raised # "none" => /\ pc \in {"closing", "done"}
                              /\ raised' = raised /\ op' = op
                              /\ c'.disk = c.disk /\ c'.commits = c.commits
                              /\ C11_NothingInserted
      ]_vars

\* C11's case: a run that loaded a lineup file, then ended on an exception of
\* the match loader, with nothing loaded by the team stats loader.
C11_Witness ==
    /\ pc = "done" /\ op = "load_match_file" /\ raised # "none"
    /\ before.rows["team_lineups"] # {}
    /\ c.disk.rows["team_lineups"] = before.rows["team_lineups"]
    /\ c.disk.rows["team_stats"] = {}


\* The statements that insert an existing team_lineups row again with another
\* year, another round_num or both.
C12_Rewrites(r) ==
    {[r EXCEPT !.year = y, !.round_num = rn] :
        y \in {r.year, convert_to_int(IntV(2021)), convert_to_int(IntV(1999))},
        rn \in {r.round_num, Text(<<"X">>)}}

\* The rows of the file from which player n of the file's date and team
\* would be inserted.
C12_RowsNaming(n) ==
    {i \in 1..Len(file.rows) :
        ~LineupRowFails(file, file.rows[i]) /\ n \in NamesOf(file.rows[i])}

\* C12: a lineup insert whose (date, team_name, player_name) is already in
\* team_lineups succeeds and changes nothing, whatever its year and
\* round_num; so after a lineup file is loaded every row committed before it
\* is still there as it was, no key has a second row, the other tables are
\* as they were, and a player the file names in several rows has the year of
\* the first of them.
C12_FirstWriterWins ==
    /\ (open /\ c.txn # "aborted" /\ "team_lineups" \in c.work.exists) =>
          \A r \in c.work.rows["team_lineups"] : \A v \in C12_Rewrites(r) :
              LET res == Execute(c, "team_lineups", v, TRUE)
              IN  /\ res.err = "none"
                  /\ res.c.work = c.work
                  /\ res.c.disk = c.disk
    /\ op = "load_lineup_file" =>
          /\ before.rows["team_lineups"] \subseteq c.disk.rows["team_lineups"]
          /\ \A t \in TableNames \ {"team_lineups"} : c.disk.rows[t] = before.rows[t]
          /\ \A i \in 1..Len(file.rows) : \A n \in NamesOf(file.rows[i]) :
                LET old == EntriesFor(before, file.rows[i], n)
                    new == EntriesFor(c.disk, file.rows[i], n)
                    first == C12_RowsNaming(n)
                IN  /\ Cardinality(new) <= 1
                    /\ old # {} => new = old
                    /\ (old = {} /\ first # {}) =>
                          \A r \in new :
                              \A j \in first :
                                  (\A k \in first : j <= k) =>
                                      r.year = convert_to_int(file.rows[j].year)

\* C12's case: a committed lineup file with a row that names a player whose
\* entry was committed before it with another year.
C12_Witness ==
    /\ op = "load_lineup_file" /\ c.commits = 1 /\ c.txn = "idle"
    /\ \E i \in 1..Len(file.rows) :
          /\ ~LineupRowFails(file, file.rows[i])
          /\ \E n \in NamesOf(file.rows[i]) :
                \E r \in EntriesFor(before, file.rows[i], n) :
                    /\ r.year # convert_to_int(file.rows[i].year)
                    /\ r \in c.disk.rows["team_lineups"]

====
